---- MODULE Spec2Model ----
(***************************************************************************)
(* Model of the inline history completion hook                             *)
(* (webview/src/components/ChatInputBox/hooks/useInlineHistoryCompletion)  *)
(*                                                                         *)
(* A string is a sequence of characters; a character is a one-element      *)
(* TLA+ string.  "ZW" stands for a zero-width marker character (U+200B,    *)
(* U+200C, U+200D or U+FEFF) and " " for a whitespace character.           *)
(*                                                                         *)
(* React state (suffix, fullSuggestion, enabled) is held in state cells;   *)
(* the callbacks of the hook are closures over the values of the last      *)
(* render (variable view).  A pending timer carries the closure it was     *)
(* created with.                                                           *)
(*                                                                         *)
(* The keyboard handler of the input box (hooks/useKeyboardHandler) is     *)
(* modelled next to the hook: a key-down is dispatched through its stages, *)
(* and kd records the event, what the handler came to read of its props    *)
(* and of the answers of its callbacks, and what it did.  The API key      *)
(* preview of the config display (ConfigInfoDisplay) is a third component. *)
(***************************************************************************)
EXTENDS Integers, Sequences, FiniteSets, TLC

VARIABLES
    storeEnabled,      \* localStorage[HISTORY_ENABLED_KEY]: a string or Absent
    storeHistory,      \* localStorage history list, as loadHistory() returns it
    storeCounts,       \* localStorage count map: sequence of <<key, count>> in key order
    suffix,            \* useState('')
    fullSuggestion,    \* useState(null)
    enabled,           \* useState(isHistoryCompletionEnabled())
    view,              \* state values captured by the callbacks of the last render
    timers,            \* pending setTimeout callbacks: [id, q, en]
    debounceTimerRef,  \* debounceTimerRef.current (0 is null)
    nextTimerId,       \* id the next setTimeout returns
    lastQueryRef,      \* lastQueryRef.current
    rets,              \* observation: what the applySuggestion() calls returned that were
                       \* made in a row, with no other operation of the hook between them
    lastClean,         \* observation: cleanText of the last updateQuery call
    search,            \* observation: the last findBestMatch run and its inputs
    offFrom,           \* observation: 0, or the value nextTimerId had when the hook came
                       \* to hold enabled = false with the stored flag "false"
    mounted,           \* the component is mounted: the effects' cleanups have not run
    lastText,          \* observation: the text of the last updateQuery call
    sinceClear,        \* observation: clear() was called and updateQuery not since
    sinceApply,        \* observation: applySuggestion() returned a match and
                       \* updateQuery was not called since
    kd,                    \* the key that is down: its key-down event, what onKeyDown
                           \* read and what it did (key "-" when no key is down)
    completionSelectedRef, \* completionSelectedRef.current
    submittedOnEnterRef,   \* submittedOnEnterRef.current
    permissionMode,        \* the permissionMode prop, or Absent
    modeTrail,             \* observation: the first permissionMode and the modes that
                           \* onModeSelect was called with since
    apiKey,                \* config.apiKey || '' of the config display
    showApiKey,            \* useState(false) of the config display
    preview                \* what getApiKeyPreview() returned to the last render

hookVars == <<storeEnabled, storeHistory, storeCounts, suffix, fullSuggestion, enabled,
              view, timers, debounceTimerRef, nextTimerId, lastQueryRef,
              rets, lastClean, search, offFrom,
              mounted, lastText, sinceClear, sinceApply>>

keyVars == <<kd, completionSelectedRef, submittedOnEnterRef, permissionMode, modeTrail>>

configVars == <<apiKey, showApiKey, preview>>

vars == <<hookVars, keyVars, configVars>>

storeVars == <<storeEnabled, storeHistory, storeCounts>>
timerVars == <<timers, debounceTimerRef, nextTimerId>>

----------------------------------------------------------------------------
(* Values *)

Empty == << >>
Null == <<"<null>">>       \* null where a string is expected (no string holds this character)
Absent == "<absent>"       \* getItem() of a key that is not stored

MAX_COUNT_RECORDS == 100
minQueryLength == 2

\* bounds of the model
MaxTimerId == 3
MaxHistory == 2
MaxCount == 2
MaxCalls == 2
MaxText == 4
MaxPresses == 4
MaxKeyLen == 13

----------------------------------------------------------------------------
(* Strings *)

ZeroWidth == {"ZW"}
WhiteSpace == {" "}

\* String.prototype.toLowerCase, character by character
LowerChar(c) ==
    CASE c = "A" -> "a"
      [] c = "B" -> "b"
      [] c = "C" -> "c"
      [] c = "D" -> "d"
      [] OTHER -> c

toLowerCase(s) == [i \in 1..Len(s) |-> LowerChar(s[i])]

\* String.prototype.startsWith
startsWith(s, p) == Len(p) <= Len(s) /\ SubSeq(s, 1, Len(p)) = p

\* String.prototype.slice(n) for 0 <= n
slice(s, n) == SubSeq(s, n + 1, Len(s))

\* text.replace(/[\u200B-\u200D\uFEFF]/g, '')
StripZeroWidth(s) == SelectSeq(s, LAMBDA c : c \notin ZeroWidth)

RECURSIVE TrimStart(_)
TrimStart(s) ==
    IF s # Empty /\ Head(s) \in WhiteSpace THEN TrimStart(Tail(s)) ELSE s

RECURSIVE TrimEnd(_)
TrimEnd(s) ==
    IF s # Empty /\ s[Len(s)] \in WhiteSpace THEN TrimEnd(SubSeq(s, 1, Len(s) - 1)) ELSE s

\* String.prototype.trim
trim(s) == TrimEnd(TrimStart(s))

\* faulty variant: the text is trimmed before the markers are removed
CleanText_TrimFirst(text) == StripZeroWidth(trim(text))

\* text.replace(...).trim()
CleanText(text) == trim(StripZeroWidth(text))

----------------------------------------------------------------------------
(* The count map *)

Keys(counts) == {counts[i][1] : i \in 1..Len(counts)}

\* counts[key] || 0
CountOf(counts, key) ==
    IF \E i \in 1..Len(counts) : counts[i][1] = key
    THEN LET i == CHOOSE j \in 1..Len(counts) : counts[j][1] = key IN counts[i][2]
    ELSE 0

MaxOf(S) == CHOOSE x \in S : \A y \in S : y <= x

\* entries.sort((a, b) => b[1] - a[1]): a stable sort, count descending
RECURSIVE SortFrom(_, _)
SortFrom(entries, c) ==
    IF c < 0 THEN Empty
    ELSE SelectSeq(entries, LAMBDA e : e[2] = c) \o SortFrom(entries, c - 1)

SortByCountDesc(entries) ==
    IF entries = Empty THEN Empty
    ELSE SortFrom(entries, MaxOf({entries[i][2] : i \in 1..Len(entries)}))

\* faulty variant: the first MAX_COUNT_RECORDS entries are kept without sorting
cleanupCounts_Unsorted(counts) ==
    IF Len(counts) <= MAX_COUNT_RECORDS THEN counts
    ELSE SubSeq(counts, 1, MAX_COUNT_RECORDS)

cleanupCounts(counts) ==
    IF Len(counts) <= MAX_COUNT_RECORDS THEN counts
    ELSE SubSeq(SortByCountDesc(counts), 1, MAX_COUNT_RECORDS)

----------------------------------------------------------------------------
(* The match search *)

\* faulty variant: an item equal to the query is a match
IsCandidate_NoLength(item, query) ==
    startsWith(toLowerCase(item), toLowerCase(query))

\* faulty variant: the length test is off by one
IsCandidate_NotShorter(item, query) ==
    /\ startsWith(toLowerCase(item), toLowerCase(query))
    /\ Len(item) >= Len(query)

\* history.filter(item => itemLower.startsWith(queryLower) && item.length > query.length)
IsCandidate(item, query) ==
    /\ startsWith(toLowerCase(item), toLowerCase(query))
    /\ Len(item) > Len(query)

Matches(history, query) == SelectSeq(history, LAMBDA item : IsCandidate(item, query))

\* faulty variant: the usage counts are not compared
Compare_LengthOnly(counts, a, b) == Len(a) - Len(b)

\* faulty variant: equal counts are not ordered by length
Compare_CountOnly(counts, a, b) == CountOf(counts, b) - CountOf(counts, a)

\* the comparator of matches.sort: negative when a sorts before b
Compare(counts, a, b) ==
    LET countA == CountOf(counts, a)
        countB == CountOf(counts, b)
    IN  IF countB # countA THEN countB - countA ELSE Len(a) - Len(b)

\* matches.sort(...)[0]: the sort is stable, so the first element is the first
\* match that no other match sorts before
First(counts, matches) ==
    LET i == CHOOSE j \in 1..Len(matches) :
                 /\ \A k \in 1..Len(matches) : Compare(counts, matches[k], matches[j]) >= 0
                 /\ \A k \in 1..(j - 1) : Compare(counts, matches[k], matches[j]) # 0
    IN  matches[i]

\* faulty variant: the enabled flag is not looked at
SearchOff_NoFlag(en, query) == Len(query) < minQueryLength

\* if (!enabled || query.length < minQueryLength) return null
SearchOff(en, query) == ~en \/ Len(query) < minQueryLength

\* faulty variant: a write that throws ends the search without a result
findBestMatch_ThrowAborts(en, query, history, counts, writeOk) ==
    IF SearchOff(en, query)
    THEN [result |-> Null, counts |-> counts, setItem |-> "none"]
    ELSE LET cleanedCounts == cleanupCounts(counts)
             write == Len(cleanedCounts) # Len(counts)
             stored == IF write /\ writeOk THEN cleanedCounts ELSE counts
             setItem == IF ~write THEN "none" ELSE IF writeOk THEN "ok" ELSE "threw"
             matches == Matches(history, query)
         IN  IF matches = Empty \/ setItem = "threw"
             THEN [result |-> Null, counts |-> stored, setItem |-> setItem]
             ELSE [result |-> First(cleanedCounts, matches), counts |-> stored,
                   setItem |-> setItem]

\* result: what the search returns; counts: the stored count map afterwards;
\* setItem: whether localStorage.setItem was called, and whether it threw (~writeOk)
findBestMatch(en, query, history, counts, writeOk) ==
    IF SearchOff(en, query)
    THEN [result |-> Null, counts |-> counts, setItem |-> "none"]
    ELSE LET cleanedCounts == cleanupCounts(counts)
             write == Len(cleanedCounts) # Len(counts)
             stored == IF write /\ writeOk THEN cleanedCounts ELSE counts
             setItem == IF ~write THEN "none" ELSE IF writeOk THEN "ok" ELSE "threw"
             matches == Matches(history, query)
         IN  IF matches = Empty
             THEN [result |-> Null, counts |-> stored, setItem |-> setItem]
             ELSE [result |-> First(cleanedCounts, matches), counts |-> stored,
                   setItem |-> setItem]

----------------------------------------------------------------------------
(* The store *)

HISTORY_ENABLED_KEY == "enabled-key"
COUNTS_KEY == "chat-input-history-counts"

FlagValues == {"true", "false", Absent}

\* isHistoryCompletionEnabled() of useInputHistory: absent or any value other
\* than the literal "false" is enabled
isHistoryCompletionEnabled(flag) == flag # "false"

----------------------------------------------------------------------------
(* The hook *)

\* const hasSuggestion = useMemo(() => !!suffix && !!fullSuggestion, ...)
HasSuggestion(sfx, full) == sfx # Empty /\ full \notin {Null, Empty}
hasSuggestion == HasSuggestion(view.suffix, view.fullSuggestion)

\* what a render of the hook captures
Snapshot == [suffix |-> suffix, fullSuggestion |-> fullSuggestion, enabled |-> enabled]

\* no state change waits for a render: no event handler of the caller is running
Rendered == view = Snapshot

NoSearch == [ran |-> FALSE, en |-> FALSE, query |-> Empty, history |-> Empty,
             counts |-> Empty, result |-> Null, stored |-> Empty, setItem |-> "none",
             afterThrow |-> FALSE]

\* observation kept by every step
Observe ==
    /\ offFrom' = IF storeEnabled' = "false" /\ ~enabled'
                  THEN (IF offFrom # 0 THEN offFrom ELSE nextTimerId')
                  ELSE 0
    /\ UNCHANGED keyVars
    /\ UNCHANGED configVars

\* faulty variant: the pending timer is not cleared
ClearPending_Never(ts, ref) == ts

\* clearTimeout(debounceTimerRef.current) when the ref is set
ClearPending(ts, ref) == IF ref # 0 THEN {t \in ts : t.id # ref} ELSE ts

\* faulty variant: only the empty text is cleared at once
TooShort_EmptyOnly(cleanText) == cleanText = Empty

\* if (!cleanText || cleanText.length < minQueryLength)
TooShort(cleanText) == cleanText = Empty \/ Len(cleanText) < minQueryLength

\* React re-renders the component when the caller's event handler has returned:
\* the callbacks handed out from now on are closures over the new state
Render ==
    /\ mounted
    /\ ~Rendered
    /\ view' = Snapshot
    /\ UNCHANGED <<storeVars, suffix, fullSuggestion, enabled, timerVars,
                   lastQueryRef, rets, lastClean, search, mounted, lastText, sinceClear, sinceApply>>
    /\ Observe

updateQuery(text) ==
    LET cleanText == CleanText(text) IN
    /\ mounted
    /\ lastText' = text
    /\ sinceClear' = FALSE
    /\ sinceApply' = FALSE
    /\ lastClean' = cleanText
    /\ rets' = << >>
    /\ IF TooShort(cleanText)
       THEN /\ timers' = ClearPending(timers, debounceTimerRef)
            /\ suffix' = Empty
            /\ fullSuggestion' = Null
            /\ lastQueryRef' = Empty
            /\ UNCHANGED <<debounceTimerRef, nextTimerId>>
       ELSE /\ nextTimerId <= MaxTimerId
            /\ timers' = ClearPending(timers, debounceTimerRef)
                            \cup {[id |-> nextTimerId, q |-> cleanText, en |-> view.enabled]}
            /\ debounceTimerRef' = nextTimerId
            /\ nextTimerId' = nextTimerId + 1
            /\ UNCHANGED <<suffix, fullSuggestion, lastQueryRef>>
    /\ UNCHANGED <<storeVars, enabled, view, search, mounted>>
    /\ Observe

\* the callback of the debounce timer t runs, and React renders
debounceCallback(t, writeOk) ==
    LET found == findBestMatch(t.en, t.q, storeHistory, storeCounts, writeOk)
        match == found.result
    IN
    /\ Rendered
    /\ t \in timers
    /\ timers' = timers \ {t}
    /\ lastQueryRef' = t.q
    /\ IF match \notin {Null, Empty}
       THEN /\ suffix' = slice(match, Len(t.q))
            /\ fullSuggestion' = match
       ELSE /\ suffix' = Empty
            /\ fullSuggestion' = Null
    /\ storeCounts' = found.counts
    /\ view' = [suffix |-> suffix', fullSuggestion |-> fullSuggestion', enabled |-> enabled]
    /\ rets' = << >>
    /\ search' = [ran |-> TRUE, en |-> t.en, query |-> t.q, history |-> storeHistory,
                  counts |-> storeCounts, result |-> match, stored |-> found.counts,
                  setItem |-> found.setItem,
                  afterThrow |-> search.ran /\ (search.setItem = "threw" \/ search.afterThrow)]
    /\ UNCHANGED <<storeEnabled, storeHistory, enabled, debounceTimerRef,
                   nextTimerId, lastClean, mounted, lastText, sinceClear, sinceApply>>
    /\ Observe

\* faulty variant: the pending timer is left running
clear_NoCancel ==
    /\ mounted
    /\ suffix' = Empty
    /\ fullSuggestion' = Null
    /\ lastQueryRef' = Empty
    /\ rets' = << >>
    /\ sinceClear' = TRUE
    /\ UNCHANGED sinceApply
    /\ UNCHANGED <<storeVars, enabled, view, timerVars, lastClean, search, mounted, lastText>>
    /\ Observe

clear ==
    /\ mounted
    /\ timers' = ClearPending(timers, debounceTimerRef)
    /\ suffix' = Empty
    /\ fullSuggestion' = Null
    /\ lastQueryRef' = Empty
    /\ rets' = << >>
    /\ sinceClear' = TRUE
    /\ UNCHANGED sinceApply
    /\ UNCHANGED <<storeVars, enabled, view, debounceTimerRef, nextTimerId,
                   lastClean, search, mounted, lastText>>
    /\ Observe

applySuggestion ==
    /\ mounted
    /\ Len(rets) < MaxCalls
    /\ IF view.fullSuggestion \in {Null, Empty}
       THEN /\ rets' = Append(rets, Null)
            /\ UNCHANGED <<suffix, fullSuggestion, lastQueryRef, sinceApply>>
       ELSE /\ rets' = Append(rets, view.fullSuggestion)
            /\ suffix' = Empty
            /\ fullSuggestion' = Null
            /\ lastQueryRef' = Empty
            /\ sinceApply' = TRUE
    /\ UNCHANGED <<storeVars, enabled, view, timerVars, lastClean, search,
                   mounted, lastText, sinceClear>>
    /\ Observe

\* setInterval(checkEnabled, 1000) until the cleanup runs clearInterval
IntervalRunning == mounted

\* window.addEventListener('storage', ...) until the cleanup removes the listener
Listening == mounted

\* faulty variant: the poll tick only ever turns the flag on
checkEnabled_OnlyOn ==
    /\ IntervalRunning
    /\ Rendered
    /\ enabled' = (enabled \/ isHistoryCompletionEnabled(storeEnabled))
    /\ view' = [view EXCEPT !.enabled = enabled']
    /\ rets' = << >>
    /\ UNCHANGED <<storeVars, suffix, fullSuggestion, timerVars,
                   lastQueryRef, lastClean, search, mounted, lastText, sinceClear, sinceApply>>
    /\ Observe

\* the poll tick, and React renders
checkEnabled ==
    /\ IntervalRunning
    /\ Rendered
    /\ enabled' = isHistoryCompletionEnabled(storeEnabled)
    /\ view' = [view EXCEPT !.enabled = enabled']
    /\ rets' = << >>
    /\ UNCHANGED <<storeVars, suffix, fullSuggestion, timerVars,
                   lastQueryRef, lastClean, search, mounted, lastText, sinceClear, sinceApply>>
    /\ Observe

\* faulty variant: the key of the event is not looked at
handleStorageChange_AnyKey(key, newValue) ==
    /\ enabled' = (newValue # "false")
    /\ view' = [view EXCEPT !.enabled = enabled']
    /\ rets' = << >>
    /\ UNCHANGED <<suffix, fullSuggestion, timerVars, lastQueryRef, lastClean, search,
                   mounted, lastText, sinceClear, sinceApply>>

\* the listener of the 'storage' event, and React renders
handleStorageChange(key, newValue) ==
    /\ enabled' = IF key = HISTORY_ENABLED_KEY THEN newValue # "false" ELSE enabled
    /\ view' = [view EXCEPT !.enabled = enabled']
    /\ rets' = << >>
    /\ UNCHANGED <<suffix, fullSuggestion, timerVars, lastQueryRef, lastClean, search,
                   mounted, lastText, sinceClear, sinceApply>>

\* the hook is not touched
HookUnchanged ==
    UNCHANGED <<suffix, fullSuggestion, enabled, view, timerVars, lastQueryRef, rets,
                lastClean, search, mounted, lastText, sinceClear, sinceApply>>

\* another context writes the enabled flag; the listener, if any, is notified
OtherContextSetsFlag(newValue) ==
    /\ Rendered
    /\ storeEnabled # newValue
    /\ storeEnabled' = newValue
    /\ UNCHANGED <<storeHistory, storeCounts>>
    /\ IF Listening THEN handleStorageChange(HISTORY_ENABLED_KEY, newValue)
       ELSE HookUnchanged
    /\ Observe

\* another context removes the count map; the listener, if any, is notified
OtherContextRemovesCounts ==
    /\ Rendered
    /\ storeCounts # Empty
    /\ storeCounts' = Empty
    /\ UNCHANGED <<storeEnabled, storeHistory>>
    /\ IF Listening THEN handleStorageChange(COUNTS_KEY, Absent)
       ELSE HookUnchanged
    /\ Observe

\* this context writes the enabled flag (the settings page); no event is sent
SetFlag(value) ==
    /\ Rendered
    /\ storeEnabled # value
    /\ storeEnabled' = value
    /\ UNCHANGED <<storeHistory, storeCounts>>
    /\ HookUnchanged
    /\ Observe

\* faulty variant: the cleanup leaves the debounce timer running
Unmount_NoClear ==
    /\ mounted
    /\ Rendered
    /\ mounted' = FALSE
    /\ UNCHANGED <<storeVars, suffix, fullSuggestion, enabled, view, timerVars,
                   lastQueryRef, rets, lastClean, search, lastText, sinceClear, sinceApply>>
    /\ Observe

\* the component unmounts: the cleanups of the three effects run
Unmount ==
    /\ mounted
    /\ Rendered
    /\ mounted' = FALSE
    /\ timers' = ClearPending(timers, debounceTimerRef)
    /\ UNCHANGED <<storeVars, suffix, fullSuggestion, enabled, view, debounceTimerRef,
                   nextTimerId, lastQueryRef, rets, lastClean, search, lastText, sinceClear, sinceApply>>
    /\ Observe

----------------------------------------------------------------------------
(* The keyboard handler *)

Unread == "-"          \* a prop or an answer that onKeyDown did not come to read
NoTime == 0 - 1        \* the time since the last composition end, not read

\* the 100 of Date.now() - lastCompositionEndTimeRef.current < 100
RECENT_COMPOSITION_MS == 100

KeyNames == {"Enter", "Tab", "Home", "a", "Unidentified"}

\* e.nativeEvent.keyCode: an event that does not report its key still has the
\* code of the Enter key
keyCode(key) ==
    CASE key = "Enter" -> 13
      [] key = "Unidentified" -> 13
      [] key = "Tab" -> 9
      [] key = "Home" -> 36
      [] OTHER -> 65

\* comp: "prop" when the isComposing prop is set, "native" when
\* e.nativeEvent.isComposing is
KeyEvents ==
    [key : KeyNames, shift : BOOLEAN, meta : BOOLEAN, ctrl : BOOLEAN,
     comp : {"none", "prop", "native"}]

SendShortcuts == {"enter", "cmdEnter"}
Providers == {"claude", "codex"}
Modes == {"default", "plan", "acceptEdits", "bypassPermissions"}

\* sdkStatusLoading and sdkInstalled
SdkStates == {"ready", "loading", "missing"}

\* milliseconds since the last composition end
Elapsed == {RECENT_COMPOSITION_MS - 1, RECENT_COMPOSITION_MS}

NoPopups == [file |-> Unread, command |-> Unread, agent |-> Unread]

\* isOpen of the three popups and the answer of handleKeyDown of an open one
PopupStates ==
    { [file |-> "closed", command |-> "closed", agent |-> "closed"],
      [file |-> "declines", command |-> "declines", agent |-> "declines"],
      [file |-> "handles", command |-> "closed", agent |-> "closed"],
      [file |-> "declines", command |-> "handles", agent |-> "closed"],
      [file |-> "declines", command |-> "declines", agent |-> "handles"] }

\* the key-down e under the permissionMode prop, nothing read or done yet
Blank(e, mode) ==
    [key |-> e.key, shift |-> e.shift, meta |-> e.meta, ctrl |-> e.ctrl, comp |-> e.comp,
     mode |-> mode, mac |-> Unread, popups |-> NoPopups, provider |-> Unread,
     onModeSelect |-> Unread, inline |-> Unread, history |-> Unread,
     sendShortcut |-> Unread, elapsed |-> NoTime, sdk |-> Unread,
     calls |-> << >>, prevented |-> FALSE, stopped |-> FALSE,
     selected |-> FALSE, submitted |-> FALSE, ended |-> Unread]

NoKey ==
    Blank([key |-> Unread, shift |-> FALSE, meta |-> FALSE, ctrl |-> FALSE, comp |-> "none"],
          Absent)

\* a callback was called, and what it returned (TRUE for a callback without a result)
Call(o, fn, ret, arg) ==
    [o EXCEPT !.calls = Append(@, [fn |-> fn, ret |-> ret, arg |-> arg])]

\* e.preventDefault(); e.stopPropagation()
Consume(o) == [o EXCEPT !.prevented = TRUE, !.stopped = TRUE]

\* return, in the given stage
End(o, stage) == [o EXCEPT !.ended = stage]

isIMEComposing(o) == o.comp # "none"
isEnterKey(o) == o.key = "Enter" \/ keyCode(o.key) = 13
isRecentlyComposing(o) == o.elapsed < RECENT_COMPOSITION_MS

isCursorMovementKey(o) ==
    \/ o.key = "Home"
    \/ o.key = "End"
    \/ (o.key = "a" \/ o.key = "A") /\ o.ctrl /\ ~o.meta
    \/ (o.key = "e" \/ o.key = "E") /\ o.ctrl /\ ~o.meta

isSendKey(o) ==
    IF o.sendShortcut = "cmdEnter"
    THEN isEnterKey(o) /\ (o.meta \/ o.ctrl) /\ ~isIMEComposing(o)
    ELSE isEnterKey(o) /\ ~o.shift /\ ~isIMEComposing(o) /\ ~isRecentlyComposing(o)

modeOrder == <<"default", "plan", "acceptEdits", "bypassPermissions">>

\* Array.prototype.indexOf, from 0, -1 when x is no element
indexOf(seq, x) ==
    IF \E i \in 1..Len(seq) : seq[i] = x
    THEN (CHOOSE i \in 1..Len(seq) : seq[i] = x /\ \A j \in 1..(i - 1) : seq[j] # x) - 1
    ELSE 0 - 1

\* faulty variant: the last mode has no successor
NextMode_NoWrap(mode) ==
    LET currentIndex == indexOf(modeOrder, mode)
    IN  modeOrder[IF currentIndex + 1 < Len(modeOrder) THEN currentIndex + 2
                  ELSE Len(modeOrder)]

\* modeOrder[(currentIndex + 1) % modeOrder.length]
NextMode(mode) ==
    LET currentIndex == indexOf(modeOrder, mode)
    IN  modeOrder[((currentIndex + 1) % Len(modeOrder)) + 1]

\* faulty variant: submittedOnEnterRef is set before the SDK is looked at
SendStage_RefBeforeSdk(o) ==
    IF ~isEnterKey(o)
    THEN {End(o, "send")}
    ELSE UNION {
           LET r == [o EXCEPT !.sendShortcut = sc, !.elapsed = ms] IN
           IF ~isSendKey(r)
           THEN {End(r, "send")}
           ELSE { IF sdk = "ready"
                  THEN End(Call([r EXCEPT !.sdk = sdk, !.prevented = TRUE,
                                          !.submitted = TRUE],
                                "handleSubmit", TRUE, Unread), "send")
                  ELSE End([r EXCEPT !.sdk = sdk, !.prevented = TRUE,
                                     !.submitted = TRUE], "send")
                  : sdk \in SdkStates }
           : sc \in SendShortcuts, ms \in Elapsed }

\* the send check.  The props and the clock are read for every key; they are
\* recorded for the keys that are an Enter key, the others are no send key
\* whatever they are.
SendStage(o) ==
    IF ~isEnterKey(o)
    THEN {End(o, "send")}
    ELSE UNION {
           LET r == [o EXCEPT !.sendShortcut = sc, !.elapsed = ms] IN
           IF ~isSendKey(r)
           THEN {End(r, "send")}
           ELSE { IF sdk = "ready"
                  THEN End(Call([r EXCEPT !.sdk = sdk, !.prevented = TRUE,
                                          !.submitted = TRUE],
                                "handleSubmit", TRUE, Unread), "send")
                  ELSE End([r EXCEPT !.sdk = sdk, !.prevented = TRUE], "send")
                  : sdk \in SdkStates }
           : sc \in SendShortcuts, ms \in Elapsed }

\* if (handleHistoryKeyDown(e)) return; a handler that answers true is taken
\* to have consumed the event it was given
HistoryStage(o) ==
    UNION { IF h = "handles"
            THEN {End(Consume(Call([o EXCEPT !.history = h], "handleHistoryKeyDown",
                                   TRUE, Unread)), "history")}
            ELSE SendStage(Call([o EXCEPT !.history = h], "handleHistoryKeyDown",
                                FALSE, Unread))
            : h \in {"handles", "declines"} }

\* faulty variant: the dispatch goes on after an applied suggestion
InlineStage_NoReturn(o) ==
    IF o.key = "Tab"
    THEN UNION { LET r == [o EXCEPT !.inline = i] IN
                 IF i = "none" THEN HistoryStage(r)
                 ELSE IF i = "applies"
                 THEN HistoryStage(Consume(Call(r, "applySuggestion", TRUE, Unread)))
                 ELSE HistoryStage(Call(r, "applySuggestion", FALSE, Unread))
                 : i \in {"none", "applies", "declines"} }
    ELSE HistoryStage(o)

\* Tab with an inlineCompletion prop: applySuggestion()
InlineStage(o) ==
    IF o.key = "Tab"
    THEN UNION { LET r == [o EXCEPT !.inline = i] IN
                 IF i = "none" THEN HistoryStage(r)
                 ELSE IF i = "applies"
                 THEN {End(Consume(Call(r, "applySuggestion", TRUE, Unread)), "inline")}
                 ELSE HistoryStage(Call(r, "applySuggestion", FALSE, Unread))
                 : i \in {"none", "applies", "declines"} }
    ELSE HistoryStage(o)

\* Shift+Tab outside a composition: the mode cycle of the provider 'claude'
ModeStage(o) ==
    IF o.key = "Tab" /\ o.shift /\ ~isIMEComposing(o)
    THEN UNION { LET r == [o EXCEPT !.provider = p, !.onModeSelect = cb] IN
                 IF p = "claude" /\ cb = "present" /\ o.mode # Absent
                 THEN {End(Call(Consume(r), "onModeSelect", TRUE, NextMode(o.mode)),
                           "mode")}
                 ELSE InlineStage(r)
                 : p \in Providers, cb \in {"present", "absent"} }
    ELSE InlineStage(o)

\* e.key === 'Enter' on a key a popup handled
Select(o) == IF o.key = "Enter" THEN [o EXCEPT !.selected = TRUE] ELSE o

AgentStage(o) ==
    IF o.popups.agent # "closed"
    THEN IF o.popups.agent = "handles"
         THEN {End(Select(Consume(Call(o, "agentCompletion.handleKeyDown", TRUE, Unread))),
                   "agent")}
         ELSE ModeStage(Call(o, "agentCompletion.handleKeyDown", FALSE, Unread))
    ELSE ModeStage(o)

CommandStage(o) ==
    IF o.popups.command # "closed"
    THEN IF o.popups.command = "handles"
         THEN {End(Select(Consume(Call(o, "commandCompletion.handleKeyDown", TRUE, Unread))),
                   "command")}
         ELSE AgentStage(Call(o, "commandCompletion.handleKeyDown", FALSE, Unread))
    ELSE AgentStage(o)

FileStage(o) ==
    IF o.popups.file # "closed"
    THEN IF o.popups.file = "handles"
         THEN {End(Select(Consume(Call(o, "fileCompletion.handleKeyDown", TRUE, Unread))),
                   "file")}
         ELSE CommandStage(Call(o, "fileCompletion.handleKeyDown", FALSE, Unread))
    ELSE CommandStage(o)

\* if (handleMacCursorMovement(e)) return; if (isCursorMovementKey) return;
\* a handler that answers true is taken to have consumed the event it was given
CursorStage(o) ==
    UNION { IF mac = "handles"
            THEN {End(Consume(Call([o EXCEPT !.mac = mac], "handleMacCursorMovement",
                                   TRUE, Unread)), "cursor")}
            ELSE LET r == Call([o EXCEPT !.mac = mac], "handleMacCursorMovement",
                               FALSE, Unread)
                 IN  IF isCursorMovementKey(r)
                     THEN {End(r, "cursor")}
                     ELSE UNION { FileStage([r EXCEPT !.popups = ps]) : ps \in PopupStates }
            : mac \in {"handles", "declines"} }

\* what onKeyDown can do with the event e
onKeyDown(e, mode) == CursorStage(Blank(e, mode))

\* the mode passed to onModeSelect, if it was called
ModeSelected(o) ==
    LET c == SelectSeq(o.calls, LAMBDA x : x.fn = "onModeSelect")
    IN  IF c = << >> THEN Absent ELSE c[Len(c)].arg

\* a key goes down; the parent takes over the mode that onModeSelect is called with
KeyDown ==
    /\ kd.key = Unread
    /\ \E e \in KeyEvents : \E o \in onKeyDown(e, permissionMode) :
          /\ ModeSelected(o) # Absent => Len(modeTrail) <= MaxPresses
          /\ kd' = o
          /\ completionSelectedRef' = (completionSelectedRef \/ o.selected)
          /\ submittedOnEnterRef' = (submittedOnEnterRef \/ o.submitted)
          /\ permissionMode' =
                IF ModeSelected(o) # Absent THEN ModeSelected(o) ELSE permissionMode
          /\ modeTrail' =
                IF ModeSelected(o) # Absent THEN Append(modeTrail, ModeSelected(o))
                ELSE modeTrail
    /\ UNCHANGED <<hookVars, configVars>>

\* the key that is down goes up, under any modifiers: onKeyUp
KeyUp ==
    /\ kd.key # Unread
    /\ \E shift \in BOOLEAN, meta \in BOOLEAN, ctrl \in BOOLEAN, sc \in SendShortcuts :
          LET sendKey == IF sc = "cmdEnter" THEN isEnterKey(kd) /\ (meta \/ ctrl)
                         ELSE isEnterKey(kd) /\ ~shift
          IN  /\ completionSelectedRef' =
                    IF sendKey THEN FALSE ELSE completionSelectedRef
              /\ submittedOnEnterRef' =
                    IF sendKey /\ ~completionSelectedRef THEN FALSE ELSE submittedOnEnterRef
    /\ kd' = NoKey
    /\ UNCHANGED <<permissionMode, modeTrail, hookVars, configVars>>

\* no key is down, nothing was selected or submitted
KeysIdle ==
    /\ kd = NoKey
    /\ completionSelectedRef = FALSE
    /\ submittedOnEnterRef = FALSE
    /\ modeTrail = <<permissionMode>>

----------------------------------------------------------------------------
(* The API key preview of the config display *)

Mask == "*"                                \* the bullet character
NotConfigured == <<"<not configured>">>    \* the text shown for an empty key

\* '*'.repeat(n)
repeat(c, n) == [i \in 1..n |-> c]

\* String.prototype.slice(0, n) and slice(-n) for 0 < n
sliceHead(s, n) == SubSeq(s, 1, IF n < Len(s) THEN n ELSE Len(s))
sliceTail(s, n) == SubSeq(s, (IF n < Len(s) THEN Len(s) - n ELSE 0) + 1, Len(s))

getApiKeyPreview(key, show) ==
    IF key = Empty THEN NotConfigured
    ELSE IF show THEN key
    ELSE IF Len(key) <= 10 THEN repeat(Mask, Len(key))
    ELSE sliceHead(key, 8) \o repeat(Mask, 8) \o sliceTail(key, 4)

\* the eye button, rendered for a non-empty key: setShowApiKey(!showApiKey),
\* and React renders
ToggleShowApiKey ==
    /\ apiKey # Empty
    /\ showApiKey' = ~showApiKey
    /\ preview' = getApiKeyPreview(apiKey, showApiKey')
    /\ UNCHANGED <<apiKey, hookVars, keyVars>>

\* the parent passes another config, and React renders
ConfigChanges(key) ==
    /\ key # apiKey
    /\ apiKey' = key
    /\ preview' = getApiKeyPreview(key, showApiKey)
    /\ UNCHANGED <<showApiKey, hookVars, keyVars>>

\* no API key is configured, the key is not shown
ConfigIdle ==
    /\ apiKey = Empty
    /\ showApiKey = FALSE
    /\ preview = getApiKeyPreview(apiKey, showApiKey)

----------------------------------------------------------------------------
(* Inputs *)

abc == <<"a", "b", "c">>
abcd == <<"a", "b", "c", "d">>
ABd == <<"A", "B", "d">>
Words == {abc, abcd, ABd}

\* raw texts of the input box: "", "a ", " ab", "a<ZW>bc"
Texts == { Empty, <<"a", " ">>, <<" ", "a", "b">>, <<"a", "ZW", "b", "c">> }

Digit == <<"0", "1", "2", "3", "4", "5", "6", "7", "8", "9">>

\* "#001", "#002", ...: keys of the count map that are no candidates
FillerKey(i) ==
    <<"#", Digit[(i \div 100) + 1], Digit[((i \div 10) % 10) + 1], Digit[(i % 10) + 1]>>

Fillers(n) == [i \in 1..n |-> <<FillerKey(i), 1>>]

Histories == { <<abc, abcd>>, <<ABd, abcd>> }
CountMaps == { Empty, << <<abcd, 1>> >> }

HookInit ==
    /\ suffix = Empty
    /\ fullSuggestion = Null
    /\ enabled = isHistoryCompletionEnabled(storeEnabled)
    /\ view = Snapshot
    /\ timers = {}
    /\ lastQueryRef = Empty
    /\ rets = << >>
    /\ search = NoSearch
    /\ mounted = TRUE
    /\ sinceClear = FALSE
    /\ sinceApply = FALSE
    /\ permissionMode = "default"
    /\ KeysIdle
    /\ ConfigIdle

Init ==
    /\ storeEnabled \in {"true", "false"}
    /\ storeHistory \in Histories
    /\ storeCounts \in CountMaps
    /\ HookInit
    /\ debounceTimerRef = 0
    /\ nextTimerId = 1
    /\ lastClean = Null
    /\ lastText = Null
    /\ offFrom = IF storeEnabled = "false" THEN 1 ELSE 0

Next ==
    \/ Render
    \/ \E text \in Texts : updateQuery(text)
    \/ \E t \in timers, writeOk \in BOOLEAN : debounceCallback(t, writeOk)
    \/ clear
    \/ applySuggestion
    \/ checkEnabled
    \/ \E v \in FlagValues : OtherContextSetsFlag(v)
    \/ OtherContextRemovesCounts
    \/ \E v \in FlagValues : SetFlag(v)
    \/ Unmount

Spec == Init /\ [][Next]_vars

----------------------------------------------------------------------------
(* The match search on many stores: one debounced search per behaviour *)

WordOrders == { <<abc, abcd, ABd>>, <<ABd, abcd, abc>> }

\* the entries of the words with a count, in the given key order
WordEntries(order, cnt) ==
    LET ws == SelectSeq(order, LAMBDA w : cnt[w] > 0)
    IN  [i \in 1..Len(ws) |-> <<ws[i], cnt[ws[i]]>>]

WordEntrySeqs ==
    { WordEntries(order, cnt) : order \in WordOrders, cnt \in [Words -> 0..MaxCount] }

\* count maps of 0..3, 99..102 and 100..103 entries
SearchCountMaps ==
    { IF fillersFirst THEN Fillers(n) \o e ELSE e \o Fillers(n) :
        n \in {0, MAX_COUNT_RECORDS - 1, MAX_COUNT_RECORDS},
        fillersFirst \in BOOLEAN,
        e \in WordEntrySeqs }

\* lists of distinct words
SearchHistories ==
    { h \in UNION { [1..n -> Words] : n \in 0..MaxHistory } :
        \A i, j \in 1..Len(h) : i # j => h[i] # h[j] }

\* raw texts: "Ab", "ABC ", "a"
SearchTexts == { <<"A", "b">>, <<"A", "B", "C", " ">>, <<"a">> }

\* the hook after updateQuery calls whose timers were cancelled by the last,
\* too short one: one more timer can be started
SearchInit ==
    /\ storeEnabled = "true"
    /\ storeHistory \in SearchHistories
    /\ storeCounts \in SearchCountMaps
    /\ HookInit
    /\ debounceTimerRef = MaxTimerId - 1
    /\ nextTimerId = MaxTimerId
    /\ lastClean = Empty
    /\ lastText = Empty
    /\ offFrom = 0

SearchNext ==
    \/ \E text \in SearchTexts : updateQuery(text)
    \/ \E t \in timers, writeOk \in BOOLEAN : debounceCallback(t, writeOk)

SpecSearch == SearchInit /\ [][SearchNext]_vars

----------------------------------------------------------------------------
(* Searches on a count map of more than MAX_COUNT_RECORDS entries, whose *)
(* pruned copy the store may refuse to take *)

\* MAX_COUNT_RECORDS fillers of count 1, then "abcd"
LargeCountMaps == { Fillers(MAX_COUNT_RECORDS) \o << <<abcd, c>> >> : c \in 1..MaxCount }

ThrowInit ==
    /\ storeEnabled = "true"
    /\ storeHistory \in Histories
    /\ storeCounts \in LargeCountMaps
    /\ HookInit
    /\ debounceTimerRef = 0
    /\ nextTimerId = 1
    /\ lastClean = Null
    /\ lastText = Null
    /\ offFrom = 0

ThrowNext ==
    \/ Render
    \/ \E text \in Texts : updateQuery(text)
    \/ \E t \in timers, writeOk \in BOOLEAN : debounceCallback(t, writeOk)

SpecThrow == ThrowInit /\ [][ThrowNext]_vars

----------------------------------------------------------------------------
(* One debounced search on every short text of letters, whitespace and *)
(* zero-width markers *)

TextChars == {"a", " ", "ZW"}

aab == <<"a", "a", "b">>

AllTexts == UNION { [1..n -> TextChars] : n \in 0..MaxText }

CleanInit ==
    /\ storeEnabled = "true"
    /\ storeHistory = <<aab>>
    /\ storeCounts = Empty
    /\ HookInit
    /\ debounceTimerRef = MaxTimerId - 1
    /\ nextTimerId = MaxTimerId
    /\ lastClean = Empty
    /\ lastText = Empty
    /\ offFrom = 0

CleanNext ==
    \/ \E text \in AllTexts : updateQuery(text)
    \/ \E t \in timers, writeOk \in BOOLEAN : debounceCallback(t, writeOk)

SpecClean == CleanInit /\ [][CleanNext]_vars

----------------------------------------------------------------------------
(* The hook in a store that only this context writes: the poll is the only *)
(* way the hook learns of a changed flag.  The interval timer ticks every    *)
(* second while the component is mounted, and React renders after a handler  *)
(* has run. *)

PollInit == Init /\ storeEnabled = "true"

PollNext ==
    \/ Render
    \/ \E text \in Texts : updateQuery(text)
    \/ \E t \in timers, writeOk \in BOOLEAN : debounceCallback(t, writeOk)
    \/ clear
    \/ applySuggestion
    \/ checkEnabled
    \/ \E v \in FlagValues : SetFlag(v)
    \/ Unmount

SpecPoll == PollInit /\ [][PollNext]_vars /\ WF_vars(checkEnabled) /\ WF_vars(Render)

----------------------------------------------------------------------------
(* The keyboard handler on its own: keys go down and up *)

KeysInit ==
    /\ storeEnabled = "true"
    /\ storeHistory = Empty
    /\ storeCounts = Empty
    /\ suffix = Empty
    /\ fullSuggestion = Null
    /\ enabled = TRUE
    /\ view = Snapshot
    /\ timers = {}
    /\ debounceTimerRef = 0
    /\ nextTimerId = 1
    /\ lastQueryRef = Empty
    /\ rets = << >>
    /\ lastClean = Null
    /\ lastText = Null
    /\ search = NoSearch
    /\ offFrom = 0
    /\ mounted = TRUE
    /\ sinceClear = FALSE
    /\ sinceApply = FALSE
    /\ permissionMode \in Modes \cup {Absent}
    /\ KeysIdle
    /\ ConfigIdle

KeysNext == KeyDown \/ KeyUp

SpecKeys == KeysInit /\ [][KeysNext]_vars

----------------------------------------------------------------------------
(* The config display on its own: API keys of every length up to MaxKeyLen *)

Letters == <<"a", "b", "c", "d", "e", "f", "g", "h", "i", "j",
             "k", "l", "m", "n", "o", "p", "q", "r", "s", "t">>

\* keys of distinct characters, starting at one of the first letters
ApiKeys ==
    { SubSeq(Letters, first, first + n - 1) : n \in 0..MaxKeyLen, first \in 1..5 }

PreviewInit ==
    /\ storeEnabled = "true"
    /\ storeHistory = Empty
    /\ storeCounts = Empty
    /\ HookInit
    /\ debounceTimerRef = 0
    /\ nextTimerId = 1
    /\ lastClean = Null
    /\ lastText = Null
    /\ offFrom = 0

PreviewNext ==
    \/ ToggleShowApiKey
    \/ \E key \in ApiKeys : ConfigChanges(key)

SpecPreview == PreviewInit /\ [][PreviewNext]_vars

----------------------------------------------------------------------------
(* Claims about the hook, checked under Spec *)

Partial(sfx, full) == (sfx = Empty) # (full = Null)

\* C1: the suggestion state is never partial: suffix is non-empty and
\* fullSuggestion is non-null, or suffix is empty and fullSuggestion is null,
\* in the state cells and in what the last render handed to the caller.
C1_NeverPartial ==
    /\ ~Partial(suffix, fullSuggestion)
    /\ ~Partial(view.suffix, view.fullSuggestion)

\* a debounce callback has found a match for a query and displays it
C1_Witness ==
    /\ search.ran
    /\ fullSuggestion = search.result
    /\ fullSuggestion # Null
    /\ suffix # Empty
    /\ hasSuggestion

LastCallShort == lastClean # Null /\ Len(lastClean) < minQueryLength

\* C2: from an updateQuery call whose cleaned text is empty or shorter than
\* minQueryLength until the next updateQuery call, suffix is empty,
\* fullSuggestion is null, no debounce timer is pending (so none scheduled by
\* an earlier call can fire), and once rendered hasSuggestion is false.
C2_ShortQueryClears ==
    LastCallShort =>
        /\ suffix = Empty
        /\ fullSuggestion = Null
        /\ timers = {}
        /\ (Rendered => ~hasSuggestion)

\* a too short updateQuery call was made while a suggestion was on display,
\* after earlier calls had started timers
C2_Witness ==
    /\ LastCallShort
    /\ debounceTimerRef # 0
    /\ view.fullSuggestion # Null
    /\ fullSuggestion = Null

\* C6 (as claimed): an applySuggestion() call that directly follows an
\* applySuggestion() call that returned a match returns null, and a call made
\* when no suggestion is active returns null and changes nothing.
C6_ConsumingRead ==
    [][applySuggestion =>
          /\ (rets # << >> /\ rets[Len(rets)] # Null => rets'[Len(rets')] = Null)
          /\ (fullSuggestion = Null /\ Rendered =>
                 /\ rets'[Len(rets')] = Null
                 /\ UNCHANGED <<suffix, fullSuggestion, view, timerVars, lastQueryRef>>)]_vars

\* the hook holds enabled = false and the stored flag is "false"
ObservedOff == storeEnabled = "false" /\ ~enabled

\* C7: while the stored flag is "false" and the hook has taken it over, the
\* debounce timer of every updateQuery call made since then leaves suffix
\* empty and fullSuggestion null when it fires.
C7_DisabledNeverSuggests ==
    [][\A t \in timers :
          (/\ ObservedOff
           /\ offFrom # 0
           /\ t.id >= offFrom
           /\ \E w \in BOOLEAN : debounceCallback(t, w))
          => suffix' = Empty /\ fullSuggestion' = Null /\ ~hasSuggestion']_vars

\* the flag went off after earlier updateQuery calls; the timer of a call made
\* since then has fired, searching a query that has candidates in the history
C7_Witness ==
    /\ ObservedOff
    /\ offFrom >= 2
    /\ debounceTimerRef >= offFrom
    /\ timers = {}
    /\ search.ran
    /\ lastQueryRef = search.query
    /\ lastQueryRef # Empty
    /\ Matches(storeHistory, lastQueryRef) # Empty

\* C8 (as claimed): whenever the hook's enabled flag is false, suffix is empty
\* and fullSuggestion is null.
C8_ClearedWhenOff == ~enabled => suffix = Empty /\ fullSuggestion = Null

\* C10: at most one debounce timer is pending, and a pending timer (the only
\* one that can fire) is the one of the most recent updateQuery call: it
\* searches that call's cleaned text.
C10_OneTimer ==
    /\ Cardinality(timers) <= 1
    /\ \A t \in timers : t.id = debounceTimerRef /\ t.q = lastClean

\* a later updateQuery call has replaced the timer of an earlier one, and no
\* timer has fired or been cleared by clear() in between
C10_Witness ==
    /\ \E t \in timers : t.id >= 2 /\ t.q = lastClean
    /\ ~search.ran
    /\ rets = << >>
    /\ nextTimerId = 3

----------------------------------------------------------------------------
(* Claims about the match search, checked under SpecSearch *)

Range(seq) == {seq[i] : i \in 1..Len(seq)}

\* the elements of the searched history that extend the searched query
Extends(m, q) ==
    /\ Len(m) > Len(q)
    /\ \A i \in 1..Len(q) : LowerChar(m[i]) = LowerChar(q[i])

Candidates == {h \in Range(search.history) : Extends(h, search.query)}

\* an enabled search of a query of at least minQueryLength has run
Searched == search.ran /\ search.en /\ Len(search.query) >= minQueryLength

\* C3: a string the match search returns is an element of the history, starts
\* with the query when both are lowercased and is strictly longer than the
\* query; when the history has no such element the search returns null.
C3_MatchExtendsQuery ==
    Searched =>
        /\ search.result # Null => search.result \in Candidates
        /\ Candidates = {} => search.result = Null

\* the search has returned an element that starts with the query only when
\* the case is ignored, from a history that also holds a string equal to the query
C3_Witness ==
    /\ Searched
    /\ search.result # Null
    /\ ~startsWith(search.result, search.query)
    /\ \E h \in Range(search.history) : h # search.result /\ h \notin Candidates

\* C4 (as claimed): the search never returns a candidate when another
\* candidate has a strictly higher count in the stored count map.
C4_HigherStoredCountWins ==
    Searched /\ search.result # Null =>
        \A d \in Candidates :
            CountOf(search.counts, d) <= CountOf(search.counts, search.result)

\* the stored count map with the entries beyond the MAX_COUNT_RECORDS highest
\* counts left out: the kept entries are those of rank at most MAX_COUNT_RECORDS,
\* an entry's rank being the number of entries with a higher count, or with an
\* equal count and no later place, itself included
Rank(counts, i) ==
    Cardinality({j \in 1..Len(counts) :
                    \/ counts[j][2] > counts[i][2]
                    \/ counts[j][2] = counts[i][2] /\ j <= i})

PrunedCount(counts, key) ==
    IF \E i \in 1..Len(counts) : counts[i][1] = key /\ Rank(counts, i) <= MAX_COUNT_RECORDS
    THEN CountOf(counts, key)
    ELSE 0

\* C4 (amended): the search never returns a candidate when another candidate
\* has a strictly higher count, a count being that of the stored count map
\* pruned to its MAX_COUNT_RECORDS highest entries (the stored count itself
\* when the map holds at most MAX_COUNT_RECORDS entries; 0 for a missing or
\* pruned entry), whatever the lengths of the two.
C4_HigherPrunedCountWins ==
    Searched /\ search.result # Null =>
        \A d \in Candidates :
            PrunedCount(search.counts, d) <= PrunedCount(search.counts, search.result)

\* from a count map of more than MAX_COUNT_RECORDS entries the search has
\* returned a candidate with a higher count that is longer than another one
C4_Witness ==
    /\ Searched
    /\ search.result # Null
    /\ Len(search.counts) > MAX_COUNT_RECORDS
    /\ \E d \in Candidates :
          /\ PrunedCount(search.counts, d) < PrunedCount(search.counts, search.result)
          /\ CountOf(search.counts, d) > 0
          /\ Len(d) < Len(search.result)

\* C5 (as claimed): among the candidates whose stored count equals that of
\* the returned one, and among those with the highest stored count, the
\* returned candidate has minimal length.
C5_ShorterWinsStoredTie ==
    Searched /\ search.result # Null =>
        /\ \A d \in Candidates :
              CountOf(search.counts, d) = CountOf(search.counts, search.result)
                  => Len(search.result) <= Len(d)
        /\ \A d \in Candidates :
              (\A e \in Candidates : CountOf(search.counts, e) <= CountOf(search.counts, d))
                  => /\ CountOf(search.counts, search.result) = CountOf(search.counts, d)
                     /\ Len(search.result) <= Len(d)

\* C5 (amended): the search never returns the longer of two candidates whose
\* counts are equal, a count being that of the stored count map pruned to its
\* MAX_COUNT_RECORDS highest entries (0 for a missing or pruned entry): the
\* returned candidate has minimal length among those with the highest count.
C5_ShorterWinsPrunedTie ==
    Searched /\ search.result # Null =>
        /\ \A d \in Candidates :
              PrunedCount(search.counts, d) = PrunedCount(search.counts, search.result)
                  => Len(search.result) <= Len(d)
        /\ \A d \in Candidates :
              (\A e \in Candidates :
                    PrunedCount(search.counts, e) <= PrunedCount(search.counts, d))
                  => /\ PrunedCount(search.counts, search.result)
                           = PrunedCount(search.counts, d)
                     /\ Len(search.result) <= Len(d)

\* the search has returned the shorter of two candidates with equal positive
\* counts, while the longer one comes first in the history
C5_Witness ==
    /\ Searched
    /\ search.result # Null
    /\ \E i, j \in 1..Len(search.history) :
          /\ i < j
          /\ search.history[j] = search.result
          /\ search.history[i] \in Candidates
          /\ Len(search.history[i]) > Len(search.result)
          /\ PrunedCount(search.counts, search.result) > 0
          /\ PrunedCount(search.counts, search.history[i])
                = PrunedCount(search.counts, search.result)

Entries(counts) == Range(counts)
MinOf(S) == CHOOSE x \in S : \A y \in S : x <= y

C11_ClearStops ==
    sinceClear =>
        /\ suffix = Empty
        /\ fullSuggestion = Null
        /\ lastQueryRef = Empty
        /\ timers = {}

\* clear() was called while the timer of the last updateQuery call, of a
\* query long enough, was pending: no search has run, so the timer never fired
C11_Witness ==
    /\ sinceClear
    /\ debounceTimerRef # 0
    /\ Len(lastClean) >= minQueryLength
    /\ ~search.ran

\* C13: a change notification for the enabled-flag key sets the enabled flag
\* to whether the new value is not the literal "false" (an absent value
\* enables); a notification for another key leaves the enabled flag, the
\* suggestion state and the pending timer as they were.
C13_StorageFrame ==
    [][ /\ \A v \in FlagValues :
              OtherContextSetsFlag(v) /\ Listening => enabled' = (v # "false")
        /\ OtherContextRemovesCounts =>
              UNCHANGED <<enabled, suffix, fullSuggestion, lastQueryRef, timerVars>> ]_vars

\* the count map a search had left in the store was removed by another
\* context while the hook was disabled, showed a suggestion and had a timer pending
C13_Witness ==
    /\ mounted
    /\ ~enabled
    /\ fullSuggestion # Null
    /\ timers # {}
    /\ search.ran
    /\ search.stored # Empty
    /\ storeCounts = Empty

\* C18: once the component is unmounted no debounce timer is pending, so the
\* one pending at the unmount never fires, and no step changes the state of
\* the hook: no poll tick and no change notification for the enabled-flag key
\* does, whatever is written to the store.
C18_TeardownStops ==
    [][ ~mounted =>
          /\ timers = {}
          /\ UNCHANGED <<suffix, fullSuggestion, enabled, view, timerVars, lastQueryRef>> ]_vars

\* the component was unmounted with a debounce timer pending, and the enabled
\* flag has since been written so that the hook's flag no longer agrees with it
C18_Witness ==
    /\ ~mounted
    /\ debounceTimerRef # 0
    /\ Len(lastClean) >= minQueryLength
    /\ ~search.ran
    /\ ~sinceClear
    /\ enabled # isHistoryCompletionEnabled(storeEnabled)

\* C21 (as claimed): from an applySuggestion() call that returned a match
\* until the next updateQuery call, suffix is empty and fullSuggestion is
\* null, also when a debounce timer was pending at the call.
C21_StaysConsumed ==
    sinceApply => suffix = Empty /\ fullSuggestion = Null

\* C22 (as claimed): in every rendered state in which hasSuggestion is true,
\* the lowercased fullSuggestion starts with the lowercased cleaned text of
\* the last updateQuery call, and suffix is fullSuggestion without as many
\* leading characters as that text has, also while the debounce timer of a
\* new query is pending.
C22_SuggestionFitsInput ==
    Rendered /\ hasSuggestion =>
        /\ startsWith(toLowerCase(fullSuggestion), toLowerCase(lastClean))
        /\ suffix = slice(fullSuggestion, Len(lastClean))

----------------------------------------------------------------------------
(* Claims about a store that refuses the pruned count map, checked under *)
(* SpecThrow *)

\* C12: a search whose write of the pruned count map threw returns what it
\* returns when the write succeeds and leaves the stored count map as it was;
\* the searches after it run and return an element that extends their query
\* whenever the history holds one.
C12_WriteFailureSwallowed ==
    /\ Searched /\ search.setItem = "threw" =>
          /\ search.stored = search.counts
          /\ search.result = findBestMatch(search.en, search.query, search.history,
                                           search.counts, TRUE).result
    /\ Searched /\ search.afterThrow =>
          /\ Candidates # {} => search.result \in Candidates
          /\ Candidates = {} => search.result = Null

\* the write of a search threw, the search returned a match all the same, and
\* the write of an earlier search had thrown as well
C12_Witness ==
    /\ Searched
    /\ search.setItem = "threw"
    /\ search.afterThrow
    /\ search.result # Null
    /\ fullSuggestion = search.result

----------------------------------------------------------------------------
(* Claims about the cleaning of the text, checked under SpecClean *)

\* the characters of the text that are neither zero-width markers nor
\* whitespace, with everything between the first and the last of them except
\* the zero-width markers
Canon(text) ==
    LET solid == {i \in 1..Len(text) : text[i] \notin (ZeroWidth \cup WhiteSpace)}
    IN  IF solid = {} THEN Empty
        ELSE LET lo == CHOOSE i \in solid : \A j \in solid : i <= j
                 hi == CHOOSE i \in solid : \A j \in solid : j <= i
                 kept == {i \in lo..hi : text[i] \notin ZeroWidth}
                 Nth(n) == CHOOSE i \in kept : Cardinality({j \in kept : j < i}) = n - 1
             IN  [n \in 1..Cardinality(kept) |-> text[Nth(n)]]

\* C17: the query that an updateQuery call checks against the minimum length
\* and hands to the search is the text without its zero-width markers and
\* without its surrounding whitespace, so that texts that differ only in those
\* lead to the same timer, search and suggestion (of the history "aab":
\* "aab" for a query it extends, none otherwise).
C17_CleanedQuery ==
    LET c == Canon(lastText) IN
    /\ \A t \in timers : t.q = c
    /\ Len(c) < minQueryLength =>
          timers = {} /\ suffix = Empty /\ fullSuggestion = Null
    /\ Len(c) >= minQueryLength /\ timers = {} =>
          /\ search.ran
          /\ search.query = c
          /\ lastQueryRef = c
          /\ IF Extends(aab, c)
             THEN fullSuggestion = aab /\ suffix = slice(aab, Len(c))
             ELSE fullSuggestion = Null /\ suffix = Empty

\* the text " a<ZW>a" was searched as "aa" and completed to "aab"
C17_Witness ==
    /\ lastText = <<" ", "a", "ZW", "a">>
    /\ search.ran
    /\ search.query = <<"a", "a">>
    /\ suffix = <<"b">>

----------------------------------------------------------------------------
(* Claims about the poll, checked under SpecPoll *)

Agrees == enabled = isHistoryCompletionEnabled(storeEnabled)

\* C19: when a write of this context has left the enabled flag of the mounted
\* hook different from what the store says (enabled unless the stored value
\* is "false"), the two are eventually equal again; a poll tick makes them
\* equal, and they stay equal as long as the store is not written.
C19_PollCatchesUp ==
    /\ (mounted /\ ~Agrees) ~> (Agrees \/ ~mounted)
    /\ [][ /\ checkEnabled => Agrees'
           /\ Agrees /\ storeEnabled' = storeEnabled => Agrees' ]_vars

\* the flag was written "false" while a suggestion was displayed, and the
\* poll has turned the hook off
C19_Witness ==
    /\ mounted
    /\ storeEnabled = "false"
    /\ ~enabled
    /\ fullSuggestion # Null

----------------------------------------------------------------------------
(* Claims about the keyboard handler, checked under SpecKeys *)

\* C14 (as claimed): under either send shortcut, a key-down calls handleSubmit
\* neither during a composition (the isComposing prop or the native event's
\* isComposing) nor less than RECENT_COMPOSITION_MS after the last one ended.
C14_NoSendAroundComposition ==
    kd.submitted => ~isIMEComposing(kd) /\ ~isRecentlyComposing(kd)

\* the dispatch ended in a stage before the send check
EndedEarly(o) == o.ended \in {"cursor", "file", "command", "agent", "mode", "inline", "history"}

\* C15 (as claimed): a key-down whose dispatch a stage ended before the last
\* stage, or whose event a stage touched, has had both preventDefault and
\* stopPropagation called on its event.
C15_ConsumeOrDefer ==
    kd.key # Unread /\ (EndedEarly(kd) \/ kd.prevented \/ kd.stopped) =>
        kd.prevented /\ kd.stopped

\* the calls of onModeSelect of a key-down
ModeCalls(o) == SelectSeq(o.calls, LAMBDA x : x.fn = "onModeSelect")

\* the cyclic order default, plan, acceptEdits, bypassPermissions
Successor(mode) ==
    CASE mode = "default" -> "plan"
      [] mode = "plan" -> "acceptEdits"
      [] mode = "acceptEdits" -> "bypassPermissions"
      [] mode = "bypassPermissions" -> "default"

\* C16: a Shift+Tab key-down outside a composition that reaches the mode stage
\* with the provider 'claude', an onModeSelect callback and a permission mode
\* calls onModeSelect exactly once, with the successor of the mode in the
\* cyclic order; a mode selected four presses after another is the same mode;
\* onModeSelect is only ever called under the provider 'claude'.
C16_ModeCycle ==
    /\ ( /\ kd.key = "Tab" /\ kd.shift /\ ~isIMEComposing(kd)
         /\ kd.provider = "claude" /\ kd.onModeSelect = "present" /\ kd.mode # Absent )
       => /\ Len(ModeCalls(kd)) = 1
          /\ ModeCalls(kd)[1].arg = Successor(kd.mode)
          /\ permissionMode = Successor(kd.mode)
          /\ kd.ended = "mode"
    /\ ModeCalls(kd) # << >> => kd.provider = "claude"
    /\ \A i \in 1..Len(modeTrail) :
          /\ i > 1 => modeTrail[i] = Successor(modeTrail[i - 1])
          /\ i + 4 <= Len(modeTrail) => modeTrail[i + 4] = modeTrail[i]

\* the fourth Shift+Tab in a row has brought the mode back to the first one,
\* with a popup open that declined the key
C16_Witness ==
    /\ Len(modeTrail) = 5
    /\ kd.ended = "mode"
    /\ kd.popups.file = "declines"
    /\ permissionMode = modeTrail[1]

\* the place of a callback in the order of the stages
StageOf(fn) ==
    CASE fn = "handleMacCursorMovement" -> 1
      [] fn = "fileCompletion.handleKeyDown" -> 2
      [] fn = "commandCompletion.handleKeyDown" -> 3
      [] fn = "agentCompletion.handleKeyDown" -> 4
      [] fn = "onModeSelect" -> 5
      [] fn = "applySuggestion" -> 6
      [] fn = "handleHistoryKeyDown" -> 7
      [] fn = "handleSubmit" -> 8

\* C20: the callbacks of a key-down are called in the order of the stages, at
\* most one of them acts (a popup handler, applySuggestion or
\* handleHistoryKeyDown answers true, onModeSelect or handleSubmit is called),
\* and no callback is called after the one that acted.
C20_OneStageActs ==
    LET c == kd.calls IN
    /\ \A i, j \in 1..Len(c) : i < j => StageOf(c[i].fn) < StageOf(c[j].fn)
    /\ \A i \in 1..Len(c) : c[i].ret => i = Len(c)

\* every popup, applySuggestion and handleHistoryKeyDown declined a Tab, and
\* an Enter was submitted after the popups and the history had declined it
C20_Witness ==
    \/ /\ kd.key = "Tab"
       /\ Len(kd.calls) = 6
       /\ \A i \in 1..Len(kd.calls) : ~kd.calls[i].ret
    \/ /\ kd.submitted
       /\ Len(kd.calls) = 6

\* the key-down called handleSubmit
Submits(o) == \E i \in 1..Len(o.calls) : o.calls[i].fn = "handleSubmit"

\* the key of the event is the send key of the shortcut mode the handler read
SendKeyOf(o) ==
    /\ o.key = "Enter" \/ keyCode(o.key) = 13
    /\ o.comp = "none"
    /\ o.sendShortcut = "cmdEnter" => o.meta \/ o.ctrl
    /\ o.sendShortcut = "enter" => ~o.shift /\ o.elapsed >= RECENT_COMPOSITION_MS

\* C23: a key-down calls handleSubmit only for the send key of the shortcut
\* mode, with no callback of an earlier stage having answered true and no
\* cursor-movement key, and with the SDK installed and not loading; it sets
\* submittedOnEnterRef to true when it calls handleSubmit and leaves it as it
\* was otherwise; the send key under an SDK that is loading or not installed
\* has its default prevented and calls nothing.
C23_SubmitOnlyWhenReady ==
    [][ kd.key = Unread /\ kd'.key # Unread =>
          /\ Submits(kd') =>
                /\ SendKeyOf(kd')
                /\ kd'.sendShortcut \in SendShortcuts
                /\ kd'.sdk = "ready"
                /\ ~isCursorMovementKey(kd')
                /\ \A i \in 1..(Len(kd'.calls) - 1) : ~kd'.calls[i].ret
                /\ submittedOnEnterRef'
          /\ ~Submits(kd') => submittedOnEnterRef' = submittedOnEnterRef
          /\ kd'.sdk \in {"loading", "missing"} =>
                /\ SendKeyOf(kd')
                /\ kd'.prevented
                /\ ~Submits(kd')
                /\ submittedOnEnterRef' = submittedOnEnterRef ]_vars

\* a send key went down while the SDK was not installed: its default is
\* prevented, nothing is submitted, and submittedOnEnterRef is still true from
\* an earlier key-down that submitted
C23_Witness ==
    /\ kd.sdk = "missing"
    /\ kd.prevented
    /\ ~Submits(kd)
    /\ submittedOnEnterRef

\* C25 (as claimed): the key-up of an Enter press whose key-down a popup
\* consumed leaves completionSelectedRef false, and the key-up of a press
\* whose key-down submitted leaves submittedOnEnterRef false, under either
\* send shortcut and any modifiers.
C25_FlagsEndWithPress ==
    [][ kd.key # Unread /\ kd'.key = Unread =>
          /\ kd.selected => ~completionSelectedRef'
          /\ kd.submitted => ~submittedOnEnterRef' ]_vars

----------------------------------------------------------------------------
(* Claims about the API key preview, checked under SpecPreview *)

\* the lengths of the unmasked head and of the unmasked tail of a preview
HeadLen(p) ==
    IF \E i \in 1..Len(p) : p[i] = Mask
    THEN (CHOOSE i \in 1..Len(p) : p[i] = Mask /\ \A j \in 1..(i - 1) : p[j] # Mask) - 1
    ELSE Len(p)
TailLen(p) ==
    IF \E i \in 1..Len(p) : p[i] = Mask
    THEN Len(p) - (CHOOSE i \in 1..Len(p) : p[i] = Mask /\ \A j \in (i + 1)..Len(p) : p[j] # Mask)
    ELSE Len(p)

\* the positions of the key whose character the preview shows, in its head
\* or in its tail
Disclosed(key, p) ==
    { i \in 1..Len(key) :
        \/ i <= HeadLen(p) /\ p[i] = key[i]
        \/ i > Len(key) - TailLen(p) /\ p[Len(p) - (Len(key) - i)] = key[i] }

\* C24 (as claimed): while showApiKey is false, the preview of a non-empty
\* key leaves at least one position of the key out of its unmasked head and
\* its unmasked tail.
C24_NeverWholeKey ==
    ~showApiKey /\ apiKey # Empty => Disclosed(apiKey, preview) # 1..Len(apiKey)

====
